---- MODULE Spec2Model ----
(***************************************************************************)
(* Model of the Qubes global-clipboard staging protocol:                   *)
(*   - qui/clipboard.py: appviewer_lock, EventHandler (decoder and         *)
(*     classifier), NotificationApp (writer copy_dom0_clipboard, label)     *)
(*   - qubes_virtual_browser/virtual_browser.py: _copy_to_global_clipboard  *)
(* Files of the staging directory are records; every system call of a      *)
(* writer or of the handler is one step, so that processes interleave at   *)
(* the granularity the kernel gives them.                                  *)
(***************************************************************************)
EXTENDS Integers, Sequences, FiniteSets, TLC

----------------------------------------------------------------------------
\* Bounds of the model
MaxClock     == 2   \* mtime values are 0..MaxClock
MaxTransfers == 2   \* transfer attempts started by this repository's writers
MaxSize      == 1   \* small sizes 0..MaxSize found in staged files/metadata
MaxShows     == 3   \* calls of show_for_widget

\* Program constants
LegacyLimit == 65000   \* clipboard.py:225-226
MinProtocol == 65544   \* clipboard.py:181 (0x00010008)
NumUnits    == 4       \* clipboard.py:253 len(units)

Writers   == {"w1", "w2"}
\* bytes of the text a writer stages: empty or not
PayloadSizes == {0, 1}
LocalName == "sys-gui"   \* qapp.local_name of the qube running the browser
PasteShortcut == "Ctrl+Shift+V"

Min(a, b) == IF a <= b THEN a ELSE b

----------------------------------------------------------------------------
\* Metadata text and its parsing

\* keys of the metadata object that the handler reads
AllKeys == {"vmname", "copy_action", "paste_action", "successful",
            "malformed_request", "cleared", "qrexec_clipboard",
            "oversized_request", "sent_size", "buffer_size",
            "protocol_version_xside"}

\* a python dict: the values, and which keys are present
Dict(vm, cp, ps, su, ma, cl, qr, ov, ss, bs, pv, keys) ==
    [isdict |-> TRUE, keys |-> keys,
     vmname |-> vm, copy_action |-> cp, paste_action |-> ps,
     successful |-> su, malformed_request |-> ma, cleared |-> cl,
     qrexec_clipboard |-> qr, oversized_request |-> ov,
     sent_size |-> ss, buffer_size |-> bs, protocol_version_xside |-> pv]

EmptyDict == Dict("", 0, 0, 0, 0, 0, 0, 0, 0, 0, 0, {})
\* a JSON value that is not an object (list, number, string, null)
NotADict == [EmptyDict EXCEPT !.isdict = FALSE]

\* Text of a metadata file: an ASCII flag, the number of opening and closing
\* braces around the member list, whether a comma follows the last member,
\* and the members. shape "array" is a valid JSON text that is not an object,
\* "empty" a file truncated and not yet written.
Text(shape, ascii, lb, rb, tc, obj) ==
    [shape |-> shape, ascii |-> ascii, lbraces |-> lb, rbraces |-> rb,
     trailing_comma |-> tc, obj |-> obj]

EmptyText == Text("empty", TRUE, 0, 0, FALSE, EmptyDict)

\* the text written by NotificationApp.copy_dom0_clipboard: str.format turns
\* "{{" into "{", and the last member is followed by ",\n"
Dom0Text(sent_size) ==
    Text("object", TRUE, 1, 1, TRUE,
         Dict("dom0", 1, 0, 1, 0, 0, 0, 0, sent_size, 256000, 65544,
              AllKeys \ {"oversized_request"}))

\* the text written by _copy_to_global_clipboard: '{{\n' and '}}\n' are plain
\* literals (not f-strings, no format call), so both braces are written
BrowserText(vmname, sent_size) ==
    Text("object", TRUE, 2, 2, TRUE,
         Dict(vmname, 1, 0, 1, 0, 0, 0, 0, sent_size, 2048, 65544,
              AllKeys \ {"oversized_request"}))

\* open(METADATA, encoding="ascii").read() followed by json.loads
JsonLoads(text) ==
    IF ~text.ascii THEN [err |-> "UnicodeDecodeError", val |-> EmptyDict]
    ELSE IF text.shape = "array" THEN [err |-> "none", val |-> NotADict]
    ELSE IF text.shape = "object" /\ text.lbraces = 1 /\ text.rbraces = 1
            /\ ~text.trailing_comma
         THEN [err |-> "none", val |-> text.obj]
    ELSE [err |-> "JSONDecodeError", val |-> EmptyDict]

Has(m, k) == k \in m.keys
Truthy(v) == v # 0

----------------------------------------------------------------------------
\* Files

AbsentData == [exists |-> FALSE, size |-> 0, mtime |-> 0, tid |-> 0]
\* FROM: the name on its first line, and whether a newline ends that line
AbsentFrom == [exists |-> FALSE, line |-> "", nl |-> FALSE, tid |-> 0]

\* vm_from_file.readline(): the first line with its terminator, if any
ReadLine(f) == [text |-> f.line, nl |-> f.nl]
\* str.strip("\n"): the line without newline characters at its ends
StripNewline(l) == l.text
AbsentXevent == [exists |-> FALSE, tid |-> 0]
AbsentMeta == [exists |-> FALSE, readable |-> TRUE, mtime |-> 0,
               text |-> EmptyText, tid |-> 0]

----------------------------------------------------------------------------
\* Size formatting

RECURSIVE Log2Floor(_)
Log2Floor(n) == IF n <= 1 THEN 0 ELSE 1 + Log2Floor(n \div 2)

\* "? bytes"
UnknownSize == [known |-> FALSE, n |-> 0, singular |-> FALSE, mag |-> 0,
                tenths |-> 0]

\* 2.0 ** (10 * magnitude)
Pow1024(m) == CASE m = 0 -> 1 [] m = 1 -> 1024 [] m = 2 -> 1048576
                [] OTHER -> 1073741824

\* "%.1f" % (file_size / 2.0 ** (10 * magnitude)) in tenths: the quotient is
\* exact in binary floating point, so the digit is rounded to nearest, a
\* tie to the even digit (10 * n is split as 8 * n + 2 * n to stay below
\* 2^31)
Tenths(n, m) ==
    LET unit == Pow1024(m)
        rem == n % unit
        a == rem \div (unit \div 8)
        ra == rem % (unit \div 8)
        b == rem \div (unit \div 2)
        rb == rem % (unit \div 2)
        t == 8 * ra + 2 * rb
        q == (n \div unit) * 10 + a + b + (t \div unit)
        r == t % unit
    IN IF r > unit \div 2 \/ (r = unit \div 2 /\ q % 2 = 1)
       THEN q + 1 ELSE q

\* clipboard_formatted_size: a falsy size (0 or None) makes it read the
\* size of the payload file instead
clipboard_formatted_size(size, d) ==
    LET file_size == IF size # 0 THEN size ELSE d.size
        magnitude == IF file_size > 0
                     THEN Min(Log2Floor(file_size) \div 10, NumUnits - 1)
                     ELSE 0
    IN IF size = 0 /\ ~d.exists THEN UnknownSize
       ELSE [known |-> TRUE, n |-> file_size, singular |-> file_size = 1,
             mag |-> magnitude,
             tenths |-> IF magnitude > 0 THEN Tenths(file_size, magnitude)
                        ELSE 0]

----------------------------------------------------------------------------
\* Classifier (EventHandler._copy, EventHandler._paste) and the label

NoSize == [known |-> FALSE, n |-> 0 - 1, singular |-> FALSE, mag |-> 0,
           tenths |-> 0]

Note(icon, msg, wiped, vmname, size, limit) ==
    [icon |-> icon, msg |-> msg, wiped |-> wiped, vmname |-> vmname,
     size |-> size, limit |-> limit]

NoNote == Note("", "", FALSE, "", NoSize, NoSize)

LabelEmpty == [empty |-> TRUE, size |-> NoSize, vm |-> ""]

\* NotificationApp.update_clipboard_contents: the label it sets
\* (hasvm/hassize: the caller passed the argument)
update_clipboard_contents(hasvm, vm, hassize, size) ==
    IF ~hasvm \/ vm = "" \/ ~hassize
    THEN LabelEmpty
    ELSE [empty |-> FALSE, size |-> size, vm |-> vm]

\* the branch of the if/elif chain of _copy that is taken
CopyCaseOversizedFirst(m) ==
    IF Truthy(m.malformed_request) THEN 1
    ELSE IF Truthy(m.oversized_request) THEN 3
    ELSE IF Truthy(m.qrexec_clipboard) /\ m.sent_size >= m.buffer_size THEN 2
    ELSE IF Truthy(m.successful) /\ Truthy(m.cleared) /\ m.sent_size = 0
         THEN 4
    ELSE IF ~Truthy(m.successful) THEN 5
    ELSE 6

CopyCaseFailedFirst(m) ==
    IF Truthy(m.malformed_request) THEN 1
    ELSE IF Truthy(m.qrexec_clipboard) /\ m.sent_size >= m.buffer_size THEN 2
    ELSE IF Truthy(m.oversized_request) THEN 3
    ELSE IF Truthy(m.successful) /\ ~Truthy(m.cleared) /\ m.sent_size = 0
         THEN 4
    ELSE IF ~Truthy(m.successful) THEN 5
    ELSE 6

CopyCase(m) ==
    IF Truthy(m.malformed_request) THEN 1
    ELSE IF Truthy(m.qrexec_clipboard) /\ m.sent_size >= m.buffer_size THEN 2
    ELSE IF Truthy(m.oversized_request) THEN 3
    ELSE IF Truthy(m.successful) /\ Truthy(m.cleared) /\ m.sent_size = 0
         THEN 4
    ELSE IF ~Truthy(m.successful) THEN 5
    ELSE 6

\* the keys _copy subscripts on the way to its branch and after it; a key
\* that is missing raises KeyError at its first use
CopyKeys(m) ==
    {"sent_size", "malformed_request", "cleared", "vmname"}
    \cup (IF CopyCase(m) >= 2 THEN {"qrexec_clipboard"} ELSE {})
    \cup (IF CopyCase(m) >= 2 /\ Truthy(m.qrexec_clipboard)
          THEN {"buffer_size"} ELSE {})
    \cup (IF CopyCase(m) >= 3 THEN {"oversized_request"} ELSE {})
    \cup (IF CopyCase(m) = 3 THEN {"buffer_size"} ELSE {})
    \cup (IF CopyCase(m) >= 4 THEN {"successful"} ELSE {})

\* EventHandler._copy: raised, or the notification sent and the label set
\* (d is the payload file at the time of the call)
_copy(m, d) ==
    LET size == clipboard_formatted_size(m.sent_size, d)
        c == CopyCase(m)
        wiped == Truthy(m.cleared)
        note ==
          CASE c = 1 -> Note("dialog-error", "ERROR_MALFORMED_DATA", wiped,
                             m.vmname, NoSize, NoSize)
            [] c = 2 -> Note("dialog-warning", "WARNING_POSSIBLE_TRUNCATION",
                             wiped, m.vmname, size, NoSize)
            [] c = 3 -> Note("dialog-error", "ERROR_OVERSIZED_DATA", wiped,
                             m.vmname, size,
                             clipboard_formatted_size(m.buffer_size, d))
            [] c = 4 -> Note("dialog-warning", "WARNING_EMPTY_CLIPBOARD",
                             wiped, m.vmname, NoSize, NoSize)
            [] c = 5 -> Note("dialog-error", "ERROR_ON_COPY", wiped,
                             m.vmname, NoSize, NoSize)
            [] OTHER -> Note("dialog-information", "MSG_COPY_SUCCESS", wiped,
                             m.vmname, size, NoSize)
    IN IF ~(CopyKeys(m) \subseteq m.keys)
       THEN [raised |-> TRUE, note |-> NoNote, label |-> LabelEmpty]
       ELSE [raised |-> FALSE, note |-> note,
             label |-> update_clipboard_contents(TRUE, m.vmname, TRUE, size)]

PasteCaseStrict(m) ==
    IF ~Truthy(m.successful) \/ Truthy(m.malformed_request) THEN 1
    ELSE IF Has(m, "protocol_version_xside")
            /\ m.protocol_version_xside > MinProtocol THEN 2
    ELSE 3

PasteCase(m) ==
    IF ~Truthy(m.successful) \/ Truthy(m.malformed_request) THEN 1
    ELSE IF Has(m, "protocol_version_xside")
            /\ m.protocol_version_xside >= MinProtocol THEN 2
    ELSE 3

PasteKeys(m) ==
    {"successful"}
    \cup (IF Truthy(m.successful) THEN {"malformed_request"} ELSE {})
    \cup (IF PasteCase(m) = 1 THEN {"vmname"} ELSE {})
    \cup (IF PasteCase(m) = 2 THEN {"sent_size", "vmname"} ELSE {})

\* EventHandler._paste
_paste(m, d) ==
    LET c == PasteCase(m)
        note ==
          CASE c = 1 -> Note("dialog-error", "ERROR_ON_PASTE", TRUE,
                             m.vmname, NoSize, NoSize)
            [] c = 2 -> Note("dialog-information",
                             "MSG_PASTE_SUCCESS_METADATA", FALSE, m.vmname,
                             clipboard_formatted_size(m.sent_size, d), NoSize)
            [] OTHER -> Note("dialog-information", "MSG_PASTE_SUCCESS_LEGACY",
                             FALSE, "", NoSize, NoSize)
    IN IF ~(PasteKeys(m) \subseteq m.keys)
       THEN [raised |-> TRUE, note |-> NoNote, label |-> LabelEmpty]
       ELSE [raised |-> FALSE, note |-> note,
             label |-> update_clipboard_contents(FALSE, "", FALSE, NoSize)]

ClassifyPasteFirst(m, d) ==
    IF ~m.isdict \/ ~Has(m, "paste_action")
    THEN [res |-> "raised", note |-> NoNote, label |-> LabelEmpty]
    ELSE IF Truthy(m.paste_action)
    THEN LET r == _paste(m, d)
         IN [res |-> IF r.raised THEN "raised" ELSE "outcome",
             note |-> r.note, label |-> r.label]
    ELSE IF ~Has(m, "copy_action")
    THEN [res |-> "raised", note |-> NoNote, label |-> LabelEmpty]
    ELSE IF Truthy(m.copy_action)
    THEN LET r == _copy(m, d)
         IN [res |-> IF r.raised THEN "raised" ELSE "outcome",
             note |-> r.note, label |-> r.label]
    ELSE [res |-> "ignored", note |-> NoNote, label |-> LabelEmpty]

\* the tail of process_IN_CLOSE_WRITE (lines 233-236) on the decoded value:
\* TypeError for a value that is not a dict, KeyError for a missing key
Classify(m, d) ==
    IF ~m.isdict \/ ~Has(m, "copy_action")
    THEN [res |-> "raised", note |-> NoNote, label |-> LabelEmpty]
    ELSE IF Truthy(m.copy_action)
    THEN LET r == _copy(m, d)
         IN [res |-> IF r.raised THEN "raised" ELSE "outcome",
             note |-> r.note, label |-> r.label]
    ELSE IF ~Has(m, "paste_action")
    THEN [res |-> "raised", note |-> NoNote, label |-> LabelEmpty]
    ELSE IF Truthy(m.paste_action)
    THEN LET r == _paste(m, d)
         IN [res |-> IF r.raised THEN "raised" ELSE "outcome",
             note |-> r.note, label |-> r.label]
    ELSE [res |-> "ignored", note |-> NoNote, label |-> LabelEmpty]

LegacyRecordStrict(vmname, sent_size) ==
    Dict(vmname,
         IF vmname # "" THEN 1 ELSE 0,
         IF vmname = "" THEN 1 ELSE 0,
         IF vmname # "" /\ sent_size = 0 THEN 0 ELSE 1,
         0,
         IF sent_size = 0 THEN 1 ELSE 0,
         0,
         IF sent_size > LegacyLimit THEN 1 ELSE 0,
         sent_size, LegacyLimit, 0,
         AllKeys \ {"protocol_version_xside"})

LegacyRecordEmptyFails(vmname, sent_size) ==
    Dict(vmname,
         IF vmname # "" THEN 1 ELSE 0,
         IF vmname = "" THEN 1 ELSE 0,
         IF sent_size = 0 THEN 0 ELSE 1,
         0,
         IF sent_size = 0 THEN 1 ELSE 0,
         0,
         IF sent_size >= LegacyLimit THEN 1 ELSE 0,
         sent_size, LegacyLimit, 0,
         AllKeys \ {"protocol_version_xside"})

LegacyRecordSucceeds(vmname, sent_size) ==
    Dict(vmname,
         IF vmname # "" THEN 1 ELSE 0,
         IF vmname = "" THEN 1 ELSE 0,
         1,
         0,
         IF sent_size = 0 THEN 1 ELSE 0,
         0,
         IF sent_size >= LegacyLimit THEN 1 ELSE 0,
         sent_size, LegacyLimit, 0,
         AllKeys \ {"protocol_version_xside"})

\* the record the legacy branch synthesizes (lines 211-231)
LegacyRecord(vmname, sent_size) ==
    Dict(vmname,
         IF vmname # "" THEN 1 ELSE 0,
         IF vmname = "" THEN 1 ELSE 0,
         IF vmname # "" /\ sent_size = 0 THEN 0 ELSE 1,
         0,
         IF sent_size = 0 THEN 1 ELSE 0,
         0,
         IF sent_size >= LegacyLimit THEN 1 ELSE 0,
         sent_size, LegacyLimit, 0,
         AllKeys \ {"protocol_version_xside"})

----------------------------------------------------------------------------
\* State

VARIABLES
    data, from, xevent, meta,  \* the four staging files
    clock,                     \* file-system time
    lock,                      \* holder of appviewer.lock, or "free"
    kind,                      \* per writer: "dom0" or "browser"
    wpc, wtid, wsize,          \* per writer: position, transfer id, payload
    nextTid,                   \* id of the next transfer attempt
    aborted,                   \* a file operation of some writer has failed
    events,                    \* inotify events queued for the widget
    watch,                     \* "dir" (Unarmed) or "file" (Armed); "moved",
                               \* "gone": the watched file left FROM
    stopped,                   \* -1: the loop runs; k >= 0: loop.stop() was
                               \* called, k events of its batch remain
    hpc, hevent,               \* handler: position, event being processed
    hmtime,                    \* handler: os.path.getmtime(METADATA)
    hpath,                     \* handler: branch taken ("", structured, legacy)
    hvmname,                   \* handler: metadata["vmname"] (legacy branch)
    metadata,                  \* handler: the local variable metadata
    hTids,                     \* ids of the transfers whose files the pass read
    recTids,                   \* ... whose file contents went into metadata
    hres,                      \* how the last pass ended
    hsnap,                     \* label and watch at dispatch
    label,                     \* clipboard_label of the widget
    lastNote,                  \* last notification sent
    nNotes                     \* notifications the current (last) pass sent

files == <<data, from, xevent, meta, clock>>
wvars == <<kind, wpc, wtid, wsize, nextTid, aborted>>
hvars == <<hpc, hevent, hmtime, hpath, hvmname, metadata, hTids, recTids,
           hres, hsnap>>
uivars == <<label, lastNote, nNotes>>

\* X11FullscreenWindowHackXWayland and the GTK objects it works on
VARIABLES
    hk_widget,            \* self._widget, or None
    hk_map_signal_id,     \* self._map_signal_id
    hk_unmap_signal_id,   \* self._unmap_signal_id
    connected,            \* the signal handlers connected to the widgets
    lastId,               \* the last handler id GObject has handed out
    disconnects,          \* per handler id: the disconnect calls made on it
    mapped,               \* the widgets that are mapped
    overlay,              \* self._window is shown
    hackError             \* exception raised by a callback of the hack

xvars == <<hk_widget, hk_map_signal_id, hk_unmap_signal_id, connected, lastId,
           disconnects, mapped, overlay, hackError>>

\* One run of the virtual browser (virtual_browser.py main) and its dialog
VARIABLES
    feature,        \* the stored feature "virtual-browser-action"
    ask,            \* args.ask
    bpc,            \* position of main: off, start, dialog, act, copy, exit
    action,         \* main's action; app.action while the dialog is shown
    save_default,   \* the check box "save as default"
    shown,          \* the dialog has been shown in this run
    chosen,         \* how the dialog ended: a button, "closed", or ""
    effects         \* the side effects the run has performed

bvars == <<feature, ask, bpc, action, save_default, shown, chosen, effects>>

\* The shortcut features of the widget's qube and the hints made of them
VARIABLES
    copy_feature,     \* vm.features[COPY_FEATURE], or unset
    paste_feature,    \* vm.features[PASTE_FEATURE], or unset
    copy_shortcut,    \* self.copy_shortcut
    paste_shortcut    \* self.paste_shortcut

svars == <<copy_feature, paste_feature, copy_shortcut, paste_shortcut>>
ext == <<xvars, bvars, svars>>
vars == <<files, lock, wvars, events, watch, stopped, hvars, uivars, ext>>

\* a write stamps the file with the current time, which may have advanced
Now == {t \in {clock, clock + 1} : t <= MaxClock}

----------------------------------------------------------------------------
\* The handler: EventHandler.process_IN_CREATE / process_IN_CLOSE_WRITE
\* The widget runs its callbacks to completion on one event loop, so a pass
\* starts only when copy_dom0_clipboard (writer w1) is not running.

HandlerIdle == hpc = "idle"

\* the four files do not all belong to the same transfer
Partial ==
    ~(data.tid = from.tid /\ from.tid = xevent.tid /\ xevent.tid = meta.tid)

InWrites == {"d_open", "d_write", "f_open", "f_write", "x_write", "m_open",
             "m_write"}

\* the transfer whose four files are completely written, 0 if there is none
CompleteTid ==
    IF ~Partial /\ meta.text.shape = "object"
       /\ \A w \in Writers : wpc[w] \notin InWrites
    THEN data.tid ELSE 0

Snapshot == [label |-> label, watch |-> watch, tid |-> CompleteTid]
NoSnapshot == [label |-> LabelEmpty, watch |-> "", tid |-> 0]

\* The pass ends: __exit__ of appviewer_lock (the finally block) when it
\* leaves the with statement early, and the result of the pass
EndPassKeepsLock(res, releases) ==
    /\ hpc' = "done"
    /\ hres' = res
    /\ hmtime' = 0
    /\ hvmname' = ""
    /\ lock' = lock

EndPass(res, releases) ==
    /\ hpc' = "done"
    /\ hres' = res
    /\ hmtime' = 0
    /\ hvmname' = ""
    /\ lock' = IF releases THEN "free" ELSE lock

\* The notifier reads the queued events in batches and hands every event of
\* a batch to the handler. loop.stop() ends the loop when the callback that
\* processes the batch returns.
LoopTakesEvent == stopped # 0
AfterEvent == IF stopped > 0 THEN stopped - 1 ELSE stopped

\* the event loop hands the next event to the handler
H_Dispatch ==
    /\ HandlerIdle
    /\ LoopTakesEvent
    /\ stopped' = AfterEvent
    /\ wpc["w1"] = "idle"
    /\ events # <<>>
    /\ Head(events) \in {"CLOSE_WRITE", "CREATE_FROM"}
    /\ events' = Tail(events)
    /\ hevent' = Head(events)
    /\ hpc' = "lock"
    /\ UNCHANGED <<metadata, hmtime, hpath, hvmname, hTids, recTids>>
    /\ hres' = "running"
    /\ hsnap' = Snapshot
    /\ UNCHANGED <<files, lock, wvars, watch, uivars>>
    /\ UNCHANGED ext

\* process_IN_CREATE for a path other than FROM: nothing happens
H_DispatchOther ==
    /\ HandlerIdle
    /\ LoopTakesEvent
    /\ stopped' = AfterEvent
    /\ wpc["w1"] = "idle"
    /\ events # <<>>
    /\ Head(events) = "CREATE_OTHER"
    /\ events' = Tail(events)
    /\ UNCHANGED <<files, lock, wvars, watch, hvars, uivars>>
    /\ UNCHANGED ext

\* process_IN_MOVE_SELF / process_IN_DELETE: loop.stop(). The events that
\* were read in the same batch (any number of those queued behind this one)
\* are still handed to the handler.
H_Stop ==
    /\ HandlerIdle
    /\ stopped = 0 - 1
    /\ wpc["w1"] = "idle"
    /\ events # <<>>
    /\ Head(events) \in {"MOVE_SELF", "DELETE_SELF"}
    /\ events' = Tail(events)
    /\ \E k \in 0..Len(Tail(events)) : stopped' = k
    /\ UNCHANGED <<files, lock, wvars, watch, hvars, uivars>>
    /\ UNCHANGED ext

\* fcntl.flock(fd, LOCK_EX) blocks until the lock is free
H_Acquire ==
    /\ hpc = "lock"
    /\ lock = "free"
    /\ lock' = "handler"
    /\ hpc' = "isfile"
    /\ UNCHANGED <<files, wvars, events, watch, stopped, hevent, hmtime,
                   hpath, hvmname, metadata, hTids, recTids, hres, hsnap,
                   uivars>>
    /\ UNCHANGED ext

\* os.path.isfile(METADATA)
H_IsFile ==
    /\ hpc = "isfile"
    /\ IF meta.exists
       THEN /\ hpc' = "mtime_meta"
            /\ hpath' = hpath
            /\ hTids' = hTids \cup {meta.tid}
       ELSE /\ hpc' = "read_from"
            /\ hpath' = "legacy"
            /\ hTids' = hTids
    /\ UNCHANGED <<files, lock, wvars, events, watch, stopped, hevent, hmtime,
                   hvmname, metadata, recTids, hres, hsnap, uivars>>
    /\ UNCHANGED ext

\* os.path.getmtime(METADATA)
H_MtimeMeta ==
    /\ hpc = "mtime_meta"
    /\ hmtime' = meta.mtime
    /\ hpc' = "mtime_data"
    /\ UNCHANGED <<files, lock, wvars, events, watch, stopped, hevent, hpath,
                   hvmname, metadata, hTids, recTids, hres, hsnap, uivars>>
    /\ UNCHANGED ext

\* the comparison of line 197-199
FreshStrict(mtime_meta, mtime_data) == mtime_meta > mtime_data
Fresh(mtime_meta, mtime_data) == mtime_meta >= mtime_data

\* os.path.getmtime(DATA): FileNotFoundError leaves the with block
H_MtimeData ==
    /\ hpc = "mtime_data"
    /\ IF ~data.exists
       THEN /\ EndPass("raised", TRUE)
            /\ UNCHANGED <<hpath, hTids>>
       ELSE /\ hTids' = hTids \cup {data.tid}
            /\ hpath' = IF Fresh(hmtime, data.mtime) THEN "structured"
                        ELSE "legacy"
            /\ hpc' = IF Fresh(hmtime, data.mtime) THEN "read_meta"
                      ELSE "read_from"
            /\ UNCHANGED <<lock, hres, hmtime, hvmname>>
    /\ UNCHANGED <<files, wvars, events, watch, stopped, hevent, metadata,
                   recTids, hsnap, uivars>>
    /\ UNCHANGED ext

\* open(METADATA) / read / json.loads, then the end of the with block
H_ReadMeta ==
    /\ hpc = "read_meta"
    /\ LET r == JsonLoads(meta.text)
       IN IF ~meta.exists \/ ~meta.readable \/ r.err = "JSONDecodeError"
          THEN /\ EndPass("dropped", TRUE)
               /\ UNCHANGED <<metadata, hTids, recTids>>
          ELSE IF r.err # "none"
          THEN /\ EndPass("raised", TRUE)
               /\ UNCHANGED <<metadata, hTids, recTids>>
          ELSE /\ metadata' = r.val
               /\ hTids' = hTids \cup {meta.tid}
               /\ recTids' = {meta.tid}
               /\ lock' = "free"
               /\ hpc' = "classify"
               /\ UNCHANGED <<hres, hmtime, hvmname>>
    /\ UNCHANGED <<files, wvars, events, watch, stopped, hevent, hpath, hsnap,
                   uivars>>
    /\ UNCHANGED ext

\* open(FROM) / readline().strip
H_ReadFrom ==
    /\ hpc = "read_from"
    /\ IF ~from.exists
       THEN /\ EndPass("raised", TRUE)
            /\ UNCHANGED <<hTids, recTids>>
       ELSE /\ hvmname' = StripNewline(ReadLine(from))
            /\ hTids' = hTids \cup {from.tid}
            /\ recTids' = {from.tid}
            /\ hpc' = "getsize"
            /\ UNCHANGED <<lock, hres, hmtime>>
    /\ UNCHANGED <<files, wvars, events, watch, stopped, hevent, hpath,
                   metadata, hsnap, uivars>>
    /\ UNCHANGED ext

\* os.path.getsize(DATA) with OSError suppressed, the rest of the legacy
\* record, then the end of the with block
H_GetSize ==
    /\ hpc = "getsize"
    /\ metadata' = LegacyRecord(hvmname,
                                IF data.exists THEN data.size ELSE 0)
    /\ hTids' = IF data.exists THEN hTids \cup {data.tid} ELSE hTids
    /\ recTids' = IF data.exists THEN recTids \cup {data.tid} ELSE recTids
    /\ lock' = "free"
    /\ hpc' = "classify"
    /\ UNCHANGED <<files, wvars, events, watch, stopped, hevent, hmtime,
                   hpath, hvmname, hres, hsnap, uivars>>
    /\ UNCHANGED ext

\* lines 233-236: _copy or _paste, which update the label and notify
H_Classify ==
    /\ hpc = "classify"
    /\ LET r == Classify(metadata, data)
       IN /\ EndPass(r.res, FALSE)
          /\ IF r.res = "outcome"
             THEN /\ label' = r.label
                  /\ lastNote' = r.note
                  /\ nNotes' = nNotes + 1
             ELSE UNCHANGED uivars
    /\ UNCHANGED <<files, wvars, events, watch, stopped, hevent, hpath,
                   metadata, hTids, recTids, hsnap>>
    /\ UNCHANGED ext

setup_watcherKeepsDir(w, f) ==
    IF ~f.exists THEN w
    ELSE IF w = "dir" THEN "both" ELSE "file"

\* NotificationApp.setup_watcher: the temporary watch of the directory is
\* removed and FROM is watched (add_watch adds nothing for a missing path)
setup_watcher(w, f) == IF f.exists THEN "file" ELSE "none"

\* the pass returns: process_IN_CREATE goes on to setup_watcher (unless the
\* pass raised), and the callback returns to the event loop
H_Return ==
    /\ hpc = "done"
    /\ watch' = IF hevent = "CREATE_FROM" /\ hres # "raised"
                THEN setup_watcher(watch, from)
                ELSE watch
    /\ hpc' = "idle"
    /\ hevent' = ""
    /\ hmtime' = 0
    /\ hpath' = ""
    /\ hvmname' = ""
    /\ metadata' = EmptyDict
    /\ hTids' = {}
    /\ recTids' = {}
    /\ hres' = "none"
    /\ hsnap' = NoSnapshot
    /\ nNotes' = 0
    /\ UNCHANGED <<files, lock, wvars, events, stopped, label, lastNote>>
    /\ UNCHANGED ext

HandlerNext ==
    \/ H_Dispatch
    \/ H_DispatchOther
    \/ H_Acquire
    \/ H_IsFile
    \/ H_MtimeMeta
    \/ H_MtimeData
    \/ H_ReadMeta
    \/ H_ReadFrom
    \/ H_GetSize
    \/ H_Classify
    \/ H_Return

----------------------------------------------------------------------------
\* The writers: NotificationApp.copy_dom0_clipboard (kind "dom0") and
\* _copy_to_global_clipboard (kind "browser"). Writer w1 is the widget's own
\* menu callback; writer w2 runs in another process.

VmnameOf(w) == IF kind[w] = "dom0" THEN "dom0" ELSE LocalName

\* inotify: a file created in FROM_DIR while only the directory is watched
Created(f, ev) == IF ~f.exists /\ watch = "dir" THEN <<ev>> ELSE <<>>

\* the callback starts: the clipboard text (of wsize bytes), and for dom0
\* the early return on an empty text
W_Start(w) ==
    /\ wpc[w] = "idle"
    /\ nextTid <= MaxTransfers
    /\ w = "w1" => (HandlerIdle /\ stopped = 0 - 1)
    /\ \E n \in PayloadSizes :
         /\ kind[w] = "browser" => n > 0
         /\ nextTid' = nextTid + 1
         /\ IF kind[w] = "dom0" /\ n = 0
            THEN /\ lastNote' = Note("dialog-information", "DOM0_EMPTY",
                                     FALSE, "", NoSize, NoSize)
                 /\ UNCHANGED <<wpc, wtid, wsize>>
            ELSE /\ wpc' = [wpc EXCEPT ![w] = IF kind[w] = "dom0"
                                              THEN "lock" ELSE "d_open"]
                 /\ wsize' = [wsize EXCEPT ![w] = n]
                 /\ wtid' = [wtid EXCEPT ![w] = nextTid]
                 /\ UNCHANGED lastNote
    /\ UNCHANGED <<files, lock, kind, aborted, events, watch, stopped, hvars,
                   label, nNotes>>
    /\ UNCHANGED ext

\* appviewer_lock().__enter__ : flock(LOCK_EX)
W_AcquireNoLock(w) ==
    /\ wpc[w] = "lock"
    /\ wpc' = [wpc EXCEPT ![w] = "d_open"]
    /\ UNCHANGED <<files, lock, kind, wtid, wsize, nextTid, aborted, events,
                   watch, stopped, hvars, uivars>>
    /\ UNCHANGED ext

W_Acquire(w) ==
    /\ wpc[w] = "lock"
    /\ lock = "free"
    /\ lock' = w
    /\ wpc' = [wpc EXCEPT ![w] = "d_open"]
    /\ UNCHANGED <<files, kind, wtid, wsize, nextTid, aborted, events, watch,
                   stopped, hvars, uivars>>
    /\ UNCHANGED ext

\* open(DATA, "w"): creates or truncates
W_OpenData(w) ==
    /\ wpc[w] = "d_open"
    /\ \E t \in Now :
         /\ clock' = t
         /\ data' = [exists |-> TRUE, size |-> 0, mtime |-> t,
                     tid |-> wtid[w]]
    /\ events' = events \o Created(data, "CREATE_OTHER")
    /\ wpc' = [wpc EXCEPT ![w] = "d_write"]
    /\ UNCHANGED <<from, xevent, meta, lock, kind, wtid, wsize, nextTid,
                   aborted, watch, stopped, hvars, uivars>>
    /\ UNCHANGED ext

\* contents.write(text) and close
W_WriteData(w) ==
    /\ wpc[w] = "d_write"
    /\ \E t \in Now :
         /\ clock' = t
         /\ data' = [data EXCEPT !.size = wsize[w], !.mtime = t,
                                 !.tid = wtid[w]]
    /\ wpc' = [wpc EXCEPT ![w] = "f_open"]
    /\ wsize' = [wsize EXCEPT ![w] = 0]
    /\ UNCHANGED <<from, xevent, meta, lock, kind, wtid, nextTid, aborted,
                   events, watch, stopped, hvars, uivars>>
    /\ UNCHANGED ext

\* open(FROM, "w")
W_OpenFrom(w) ==
    /\ wpc[w] = "f_open"
    /\ from' = [exists |-> TRUE, line |-> "", nl |-> FALSE, tid |-> wtid[w]]
    /\ events' = events \o Created(from, "CREATE_FROM")
    /\ wpc' = [wpc EXCEPT ![w] = "f_write"]
    /\ UNCHANGED <<data, xevent, meta, clock, lock, kind, wtid, wsize,
                   nextTid, aborted, watch, stopped, hvars, uivars>>
    /\ UNCHANGED ext

\* source.write(vmname) and close: IN_CLOSE_WRITE when FROM is watched. If
\* the file was moved away since it was opened, the write goes to the moved
\* file, which the watch still follows.
W_WriteFrom(w) ==
    /\ wpc[w] = "f_write"
    /\ from' = IF from.exists
               THEN [exists |-> TRUE, line |-> VmnameOf(w), nl |-> FALSE,
                     tid |-> wtid[w]]
               ELSE from
    /\ events' = IF (from.exists /\ watch = "file")
                    \/ (~from.exists /\ watch = "moved")
                 THEN Append(events, "CLOSE_WRITE")
                 ELSE events
    /\ wpc' = [wpc EXCEPT ![w] = "x_write"]
    /\ UNCHANGED <<data, xevent, meta, clock, lock, kind, wtid, wsize,
                   nextTid, aborted, watch, stopped, hvars, uivars>>
    /\ UNCHANGED ext

\* the timestamp file (nothing in this repository reads it back)
W_WriteXevent(w) ==
    /\ wpc[w] = "x_write"
    /\ xevent' = [exists |-> TRUE, tid |-> wtid[w]]
    /\ events' = events \o Created(xevent, "CREATE_OTHER")
    /\ wpc' = [wpc EXCEPT ![w] = "m_open"]
    /\ UNCHANGED <<data, from, meta, clock, lock, kind, wtid, wsize, nextTid,
                   aborted, watch, stopped, hvars, uivars>>
    /\ UNCHANGED ext

\* open(METADATA, "w")
W_OpenMeta(w) ==
    /\ wpc[w] = "m_open"
    /\ \E t \in Now :
         /\ clock' = t
         /\ meta' = [exists |-> TRUE, readable |-> TRUE, mtime |-> t,
                     text |-> EmptyText, tid |-> wtid[w]]
    /\ events' = events \o Created(meta, "CREATE_OTHER")
    /\ wpc' = [wpc EXCEPT ![w] = "m_write"]
    /\ UNCHANGED <<data, from, xevent, lock, kind, wtid, wsize, nextTid,
                   aborted, watch, stopped, hvars, uivars>>
    /\ UNCHANGED ext

\* metadata.write(...) with sent_size = os.path.getsize(DATA), close, and
\* for dom0 the end of the with block
W_WriteMetaKeepsLock(w) ==
    /\ wpc[w] = "m_write"
    /\ \E t \in Now :
         /\ clock' = t
         /\ meta' = [meta EXCEPT
                       !.mtime = t, !.tid = wtid[w],
                       !.text = IF kind[w] = "dom0" THEN Dom0Text(data.size)
                                ELSE BrowserText(VmnameOf(w), data.size)]
    /\ wpc' = [wpc EXCEPT ![w] = "idle"]
    /\ wtid' = [wtid EXCEPT ![w] = 0]
    /\ wsize' = [wsize EXCEPT ![w] = 0]
    /\ UNCHANGED <<data, from, xevent, lock, kind, nextTid, aborted, events,
                   watch, stopped, hvars, uivars>>
    /\ UNCHANGED ext

\* metadata.write(...) and close; the with block of the lock ends
W_WriteMeta(w) ==
    /\ wpc[w] = "m_write"
    /\ \E t \in Now :
         /\ clock' = t
         /\ meta' = [meta EXCEPT
                       !.mtime = t, !.tid = wtid[w],
                       !.text = IF kind[w] = "dom0" THEN Dom0Text(data.size)
                                ELSE BrowserText(VmnameOf(w), data.size)]
    /\ lock' = IF lock = w THEN "free" ELSE lock
    /\ wpc' = [wpc EXCEPT ![w] = "idle"]
    /\ wtid' = [wtid EXCEPT ![w] = 0]
    /\ wsize' = [wsize EXCEPT ![w] = 0]
    /\ UNCHANGED <<data, from, xevent, kind, nextTid, aborted, events, watch,
                   stopped, hvars, uivars>>
    /\ UNCHANGED ext

\* a file operation of copy_dom0_clipboard raises: the exception leaves the
\* with block (the lock is released) and the except branch notifies
W_Fail(w) ==
    /\ kind[w] = "dom0"
    /\ wpc[w] \in InWrites
    /\ aborted' = TRUE
    /\ lock' = IF lock = w THEN "free" ELSE lock
    /\ wpc' = [wpc EXCEPT ![w] = "idle"]
    /\ lastNote' = Note("dialog-error", "DOM0_ACCESS_ERROR", FALSE, "",
                        NoSize, NoSize)
    /\ wtid' = [wtid EXCEPT ![w] = 0]
    /\ wsize' = [wsize EXCEPT ![w] = 0]
    /\ UNCHANGED <<files, kind, nextTid, events, watch, stopped, hvars, label,
                   nNotes>>
    /\ UNCHANGED ext

\* Another party deletes FROM or moves it away while the widget watches it:
\* IN_DELETE_SELF (the watch ends) or IN_MOVE_SELF (the watch follows the
\* file). A file that a writer holds open is not deleted before it is closed.
Env_RemoveFrom ==
    /\ watch = "file"
    /\ from.exists
    /\ \/ /\ events' = Append(events, "MOVE_SELF")
          /\ watch' = "moved"
       \/ /\ \A w \in Writers : wpc[w] # "f_write"
          /\ events' = Append(events, "DELETE_SELF")
          /\ watch' = "gone"
    /\ from' = AbsentFrom
    /\ UNCHANGED <<data, xevent, meta, clock, lock, wvars, stopped, hvars,
                   uivars>>
    /\ UNCHANGED ext

WriterNext ==
    \E w \in Writers :
        \/ W_Start(w)
        \/ W_Acquire(w)
        \/ W_OpenData(w)
        \/ W_WriteData(w)
        \/ W_OpenFrom(w)
        \/ W_WriteFrom(w)
        \/ W_WriteXevent(w)
        \/ W_OpenMeta(w)
        \/ W_WriteMeta(w)
        \/ W_Fail(w)

----------------------------------------------------------------------------
\* X11FullscreenWindowHackXWayland (gtk3_xwayland_menu_dismisser.py)

None == "None"
Widgets == {"menuA", "menuB"}
HandlerIds == 1..(2 * MaxShows)

Handler(id, w, sig) == [id |-> id, widget |-> w, signal |-> sig]

\* __init__ (lines 59-87)
HackInit ==
    /\ hk_widget = None
    /\ hk_map_signal_id = 0
    /\ hk_unmap_signal_id = 0
    /\ connected = {}
    /\ lastId = 0
    /\ disconnects = [i \in HandlerIds |-> 0]
    /\ mapped = {}
    /\ overlay = FALSE
    /\ hackError = "none"

\* the fields of the hack and the GObject handler table, as one value
HackState ==
    [widget |-> hk_widget, map_id |-> hk_map_signal_id,
     unmap_id |-> hk_unmap_signal_id, connected |-> connected,
     disconnects |-> disconnects]

\* widget.disconnect(id)
Disconnect(s, id) ==
    [s EXCEPT !.connected = {h \in @ : ~(h.id = id /\ h.widget = s.widget)},
              !.disconnects[id] = @ + 1]

clear_widgetKeepsIds(s) ==
    LET s1 == IF s.widget # None /\ s.map_id # 0
              THEN Disconnect(s, s.map_id) ELSE s
        s2 == IF s.widget # None /\ s.unmap_id # 0
              THEN Disconnect(s1, s.unmap_id) ELSE s1
    IN s2

\* clear_widget (lines 89-114)
clear_widget(s) ==
    LET s1 == IF s.widget # None /\ s.map_id # 0
              THEN Disconnect([s EXCEPT !.map_id = 0], s.map_id) ELSE s
        s2 == IF s.widget # None /\ s.unmap_id # 0
              THEN Disconnect([s1 EXCEPT !.unmap_id = 0], s.unmap_id) ELSE s1
    IN [s2 EXCEPT !.widget = None]

\* show_for_widget (lines 116-123)
show_for_widget(s, w, id) ==
    LET c == clear_widget(s)
    IN [c EXCEPT !.widget = w,
                  !.unmap_id = id + 1,
                  !.map_id = id + 2,
                  !.connected = @ \cup {Handler(id + 1, w, "unmap"),
                                        Handler(id + 2, w, "map")}]

SetHack(s) ==
    /\ hk_widget' = s.widget
    /\ hk_map_signal_id' = s.map_id
    /\ hk_unmap_signal_id' = s.unmap_id
    /\ connected' = s.connected
    /\ disconnects' = s.disconnects

\* everything but the hack and its widgets
clipvars == <<files, lock, wvars, events, watch, stopped, hvars, uivars>>

X_clear_widget ==
    /\ SetHack(clear_widget(HackState))
    /\ UNCHANGED <<lastId, mapped, overlay, hackError, clipvars, bvars, svars>>

X_show_for_widget(w) ==
    /\ lastId + 2 <= 2 * MaxShows
    /\ SetHack(show_for_widget(HackState, w, lastId))
    /\ lastId' = lastId + 2
    /\ UNCHANGED <<mapped, overlay, hackError, clipvars, bvars, svars>>

Listens(w, sig) == \E h \in connected : h.widget = w /\ h.signal = sig

\* a widget is mapped (a menu pops up): _show runs if connected
X_Map(w) ==
    /\ w \notin mapped
    /\ mapped' = mapped \cup {w}
    /\ IF Listens(w, "map")
       THEN IF w = hk_widget
            THEN overlay' = TRUE /\ UNCHANGED hackError
            ELSE hackError' = "AssertionError" /\ UNCHANGED overlay
       ELSE UNCHANGED <<overlay, hackError>>
    /\ UNCHANGED <<hk_widget, hk_map_signal_id, hk_unmap_signal_id,
                   connected, lastId, disconnects, clipvars, bvars, svars>>

\* the effect of a widget being unmapped: _hide runs if connected
Unmapped(w) ==
    /\ mapped' = mapped \ {w}
    /\ IF Listens(w, "unmap")
       THEN IF w = hk_widget
            THEN overlay' = FALSE /\ UNCHANGED hackError
            ELSE hackError' = "AssertionError" /\ UNCHANGED overlay
       ELSE UNCHANGED <<overlay, hackError>>

\* a widget is unmapped (the menu is dismissed)
X_Unmap(w) ==
    /\ w \in mapped
    /\ Unmapped(w)
    /\ UNCHANGED <<hk_widget, hk_map_signal_id, hk_unmap_signal_id,
                   connected, lastId, disconnects, clipvars, bvars, svars>>

\* on_button_press (lines 145-152): a click on the shown overlay window
X_on_button_press ==
    /\ overlay
    /\ IF hk_widget = None
       THEN /\ overlay' = FALSE
            /\ hackError' = "AttributeError"
            /\ UNCHANGED mapped
       ELSE IF hk_widget \in mapped
       THEN /\ mapped' = mapped \ {hk_widget}
            /\ overlay' = FALSE
            /\ UNCHANGED hackError
       ELSE /\ overlay' = FALSE
            /\ UNCHANGED <<mapped, hackError>>
    /\ UNCHANGED <<hk_widget, hk_map_signal_id, hk_unmap_signal_id,
                   connected, lastId, disconnects, clipvars, bvars, svars>>

HackNext ==
    \/ X_clear_widget
    \/ \E w \in Widgets : X_show_for_widget(w)
    \/ \E w \in Widgets : X_Map(w)
    \/ \E w \in Widgets : X_Unmap(w)
    \/ X_on_button_press

----------------------------------------------------------------------------
\* The virtual browser's main and dialog (virtual_browser.py)

\* an action string: whether it starts with "disposable:", and the rest of
\* it (action[11:]), or all of it when it does not
Str(disp, name) == [disp |-> disp, name |-> name]
Disposable(name) == Str(TRUE, name)
Clipboard == Str(FALSE, "clipboard")
Discard == Str(FALSE, "discard")

\* qapp.domains, and those with template_for_dispvms
Domains == {"dom0", LocalName, "work", "dvm"}
DispTemplates == {"dvm"}

\* values the feature may hold: unset (""), the three kinds of action, a
\* disposable that no longer exists, one that is no template, an empty
\* name, and text that is no action
FeatureValues ==
    {Str(FALSE, ""), Clipboard, Discard, Str(FALSE, "Clipboard"),
     Disposable("dvm"), Disposable("work"), Disposable("gone"),
     Disposable("")}

\* the condition of main (lines 187-188) under which no dialog is needed
KnownLoose(a) == a \in {Clipboard, Discard} \/ a.disp

Known(a) ==
    \/ a \in {Clipboard, Discard}
    \/ (a.disp /\ a.name \in Domains)

BrowserOff ==
    /\ feature = Str(FALSE, "")
    /\ ask = FALSE
    /\ bpc = "off"
    /\ action = Str(FALSE, "")
    /\ save_default = FALSE
    /\ shown = FALSE
    /\ chosen = ""
    /\ effects = <<>>

\* main is entered with a valid URL (argparse has accepted it)
BrowserStart ==
    /\ feature \in FeatureValues
    /\ ask \in BOOLEAN
    /\ bpc = "start"
    /\ action = Str(FALSE, "")
    /\ save_default = FALSE
    /\ shown = FALSE
    /\ chosen = ""
    /\ effects = <<>>

\* main, lines 184-190: the stored action is read; the dialog is created
\* (app.action = 'discard') and run unless the action is usable as it is
B_main ==
    /\ bpc = "start"
    /\ IF ask \/ ~Known(feature)
       THEN /\ bpc' = "dialog"
            /\ shown' = TRUE
            /\ action' = Discard
       ELSE /\ bpc' = "act"
            /\ action' = feature
            /\ UNCHANGED shown
    /\ UNCHANGED <<feature, ask, save_default, chosen, effects, xvars,
                   clipvars, svars>>

\* the user ticks or unticks "save as default"
B_ToggleSave ==
    /\ bpc = "dialog"
    /\ save_default' = ~save_default
    /\ UNCHANGED <<feature, ask, bpc, action, shown, chosen, effects, xvars,
                   clipvars, svars>>

\* take_action (lines 113-129), a button is clicked; for the disposable
\* button the active row names the template (with no active row the
\* callback raises before it changes anything and the dialog stays)
B_take_action ==
    /\ bpc = "dialog"
    /\ \E a \in {Clipboard, Discard} \cup
                {Disposable(d) : d \in DispTemplates} :
         /\ action' = a
         /\ chosen' = IF a.disp THEN "disposable" ELSE a.name
         /\ feature' = IF save_default THEN a ELSE feature
    /\ bpc' = "act"
    /\ UNCHANGED <<ask, save_default, shown, effects, xvars, clipvars, svars>>

\* delete-event of the dialog: Gtk.main_quit
B_Close ==
    /\ bpc = "dialog"
    /\ chosen' = "closed"
    /\ bpc' = "act"
    /\ UNCHANGED <<feature, ask, action, save_default, shown, effects,
                   xvars, clipvars, svars>>

\* main, lines 192-193: _open_url_in_dvm, then sys.exit
B_OpenUrl ==
    /\ bpc = "act"
    /\ action.disp
    /\ effects' = Append(effects, <<"open", action.name>>)
    /\ bpc' = "exit"
    /\ UNCHANGED <<feature, ask, action, save_default, shown, chosen,
                   xvars, clipvars, svars>>

\* main, lines 194-195: _copy_to_global_clipboard is entered; its file
\* operations are the steps of writer w2
B_CopyUrl ==
    /\ bpc = "act"
    /\ ~action.disp /\ action = Clipboard
    /\ kind["w2"] = "browser" /\ wpc["w2"] = "idle"
    /\ effects' = Append(effects, <<"clipboard", LocalName>>)
    /\ wpc' = [wpc EXCEPT !["w2"] = "d_open"]
    /\ wsize' = [wsize EXCEPT !["w2"] = 1]
    /\ wtid' = [wtid EXCEPT !["w2"] = nextTid]
    /\ nextTid' = nextTid + 1
    /\ bpc' = "copy"
    /\ UNCHANGED <<feature, ask, action, save_default, shown, chosen,
                   xvars, svars, files, lock, kind, aborted, events, watch, stopped,
                   hvars, uivars>>

\* main, line 196: sys.exit, after the copy or with nothing to do
B_Exit ==
    /\ \/ bpc = "copy" /\ wpc["w2"] = "idle"
       \/ bpc = "act" /\ ~action.disp /\ action # Clipboard
    /\ bpc' = "exit"
    /\ UNCHANGED <<feature, ask, action, save_default, shown, chosen,
                   effects, xvars, clipvars, svars>>

BrowserNext ==
    \/ B_main
    \/ B_ToggleSave
    \/ B_take_action
    \/ B_Close
    \/ B_OpenUrl
    \/ B_CopyUrl
    \/ B_Exit
    \/ W_OpenData("w2")
    \/ W_WriteData("w2")
    \/ W_OpenFrom("w2")
    \/ W_WriteFrom("w2")
    \/ W_WriteXevent("w2")
    \/ W_OpenMeta("w2")
    \/ W_WriteMeta("w2")

----------------------------------------------------------------------------
\* The shortcut hints: NotificationApp.setup_ui and _prettify_shortcut

\* a feature value is the text of a shortcut, kept as its parts between
\* the "-" separators
Unset == [set |-> FALSE, parts |-> <<>>]
Shortcut(parts) == [set |-> TRUE, parts |-> parts]
DefaultCopy == <<"Ctrl", "Shift", "C">>
DefaultPaste == <<"Ctrl", "Shift", "V">>

\* vm.features.get(name, default)
FeatureGet(f, default) == IF f.set THEN f.parts ELSE default

\* _convert_to_readable
convert_to_readable(key) ==
    IF key = "Mod4" THEN "Win"
    ELSE IF key = "Ins" THEN "Insert"
    ELSE IF key = "c" THEN "C"
    ELSE IF key = "v" THEN "V"
    ELSE key

\* _prettify_shortcut: the readable parts, to be joined by "+"
prettify_shortcut(parts) ==
    [i \in 1..Len(parts) |-> convert_to_readable(parts[i])]

\* values a shortcut feature is set to
CopyValues == {Unset, Shortcut(<<"Ctrl", "Mod4", "c">>), Shortcut(<<"Ins">>)}
PasteValues == {Unset, Shortcut(<<"Ctrl", "Mod4", "v">>), Shortcut(<<"Ins">>)}

\* __init__ (lines 305-307): the first setup_ui, the features being unset
ShortcutInit ==
    /\ copy_feature = Unset
    /\ paste_feature = Unset
    /\ copy_shortcut = prettify_shortcut(DefaultCopy)
    /\ paste_shortcut = prettify_shortcut(DefaultPaste)

\* setup_ui (lines 367-409) as the handler of domain-feature-set and
\* domain-feature-delete of a shortcut feature: the hints are recomputed,
\* the menu is built anew, and update_clipboard_contents() is called
\* without arguments
UI_setup_ui ==
    /\ HandlerIdle
    /\ wpc["w1"] = "idle"
    /\ \E c \in CopyValues, p \in PasteValues :
         /\ (c = copy_feature) # (p = paste_feature)
         /\ copy_feature' = c
         /\ paste_feature' = p
         /\ copy_shortcut' = prettify_shortcut(FeatureGet(c, DefaultCopy))
         /\ paste_shortcut' = prettify_shortcut(FeatureGet(p, DefaultPaste))
    /\ label' = update_clipboard_contents(FALSE, "", FALSE, NoSize)
    /\ UNCHANGED <<files, lock, wvars, events, watch, stopped, hvars,
                   lastNote, nNotes, xvars, bvars>>

----------------------------------------------------------------------------
\* Initial states and specifications

\* a record as qubes-guid (protocol 1.8) stages it: strict JSON
GuidText(d) == Text("object", TRUE, 1, 1, FALSE, d)

PriorCopy == Dict("work", 1, 0, 1, 0, 0, 0, 0, 1, 256000, 65544, AllKeys)

ClipboardInit ==
    /\ lock = "free"
    /\ wpc = [w \in Writers |-> "idle"]
    /\ wtid = [w \in Writers |-> 0]
    /\ wsize = [w \in Writers |-> 0]
    /\ nextTid = 1
    /\ aborted = FALSE
    /\ stopped = 0 - 1
    /\ hpc = "idle"
    /\ hevent = ""
    /\ hmtime = 0
    /\ hpath = ""
    /\ hvmname = ""
    /\ metadata = EmptyDict
    /\ hTids = {}
    /\ recTids = {}
    /\ hres = "none"
    /\ lastNote = NoNote
    /\ nNotes = 0
    /\ HackInit
    /\ ShortcutInit

\* the widget alone, no run of the virtual browser's main in progress
WidgetInit ==
    /\ ClipboardInit
    /\ BrowserOff

\* The staging directory when the widget starts: empty after boot, or left
\* by an earlier legacy transfer of qubes-guid, or left by a protocol 1.8
\* transfer and without its payload (removed by another party) while a close
\* event of FROM is already queued.
\* NotificationApp.__init__ watches the directory when FROM is absent and
\* FROM itself otherwise.
StagingInit ==
    /\ clock = 0
    /\ \/ /\ data = AbsentData
          /\ from = AbsentFrom
          /\ xevent = AbsentXevent
          /\ meta = AbsentMeta
          /\ watch = "dir"
          /\ events = <<>>
       \/ /\ data = [exists |-> TRUE, size |-> 1, mtime |-> 0, tid |-> 0]
          /\ from = [exists |-> TRUE, line |-> "work", nl |-> TRUE,
                     tid |-> 0]
          /\ xevent = [exists |-> TRUE, tid |-> 0]
          /\ meta = AbsentMeta
          /\ watch = "file"
          /\ events = <<>>
       \/ /\ data = AbsentData
          /\ from = [exists |-> TRUE, line |-> "work", nl |-> TRUE,
                     tid |-> 0]
          /\ xevent = [exists |-> TRUE, tid |-> 0]
          /\ meta = [exists |-> TRUE, readable |-> TRUE, mtime |-> 0,
                     text |-> GuidText(PriorCopy), tid |-> 0]
          /\ watch = "file"
          /\ events = <<"CLOSE_WRITE">>
    /\ label = LabelEmpty
    /\ hsnap = NoSnapshot

\* the widget and a virtual browser in another process
Init ==
    /\ WidgetInit
    /\ StagingInit
    /\ kind = [w \in Writers |-> IF w = "w1" THEN "dom0" ELSE "browser"]

\* the widget and a second writer that scopes its writes as
\* copy_dom0_clipboard does
InitLocked ==
    /\ WidgetInit
    /\ StagingInit
    /\ kind = [w \in Writers |-> "dom0"]

Next == WriterNext \/ HandlerNext

Spec == Init /\ [][Next]_vars
SpecLocked == InitLocked /\ [][Next]_vars

\* the steps of a writer inside its with block
HolderSteps ==
    \E w \in Writers :
        \/ W_OpenData(w)
        \/ W_WriteData(w)
        \/ W_OpenFrom(w)
        \/ W_WriteFrom(w)
        \/ W_WriteXevent(w)
        \/ W_OpenMeta(w)
        \/ W_WriteMeta(w)

\* the event loop keeps running the handler, and a process that holds the
\* lock keeps running
SpecLockedFair ==
    SpecLocked /\ WF_vars(HandlerNext) /\ WF_vars(HolderSteps)

\* the widget, a second locking writer, and a party that removes FROM
NextWatch == Next \/ Env_RemoveFrom \/ H_Stop
SpecWatch == InitLocked /\ [][NextWatch]_vars

\* One handler pass over an arbitrary staging directory
SmallSizes == 0..MaxSize
DataSizes == SmallSizes \cup {42, LegacyLimit - 1, LegacyLimit}
Times == 0..MaxClock
Flags == {0, 1}
KeySets == {AllKeys, AllKeys \ {"protocol_version_xside"},
            AllKeys \ {"oversized_request"}, AllKeys \ {"copy_action"}}

SomeLabel == [empty |-> FALSE, vm |-> "work",
              size |-> [known |-> TRUE, n |-> 1, singular |-> TRUE,
                        mag |-> 0, tenths |-> 0]]

\* every well-formed record, fresher than or as old as the payload
InitRecords ==
    /\ \E n \in SmallSizes :
         data = [exists |-> TRUE, size |-> n, mtime |-> 0, tid |-> 0]
    /\ from = [exists |-> TRUE, line |-> "work", nl |-> TRUE, tid |-> 0]
    /\ xevent = [exists |-> TRUE, tid |-> 0]
    /\ \E vm \in {"", "work"}, cp, ps, su, ma, cl, qr, ov \in Flags,
          ss, bs \in SmallSizes, pv \in {MinProtocol - 1, MinProtocol},
          keys \in KeySets, t \in {0, 1} :
         meta = [exists |-> TRUE, readable |-> TRUE, mtime |-> t, tid |-> 0,
                 text |-> GuidText(Dict(vm, cp, ps, su, ma, cl, qr, ov, ss,
                                        bs, pv, keys))]
    /\ label = LabelEmpty

\* every combination of present and missing files, and every kind of
\* metadata text
InitFiles ==
    /\ \/ data = AbsentData
       \/ \E n \in DataSizes, t \in Times :
            data = [exists |-> TRUE, size |-> n, mtime |-> t, tid |-> 0]
    /\ \/ from = AbsentFrom
       \/ \E l \in {"", "work"}, nl \in BOOLEAN :
            from = [exists |-> TRUE, line |-> l, nl |-> nl, tid |-> 0]
    /\ xevent = [exists |-> from.exists, tid |-> 0]
    /\ \/ meta = AbsentMeta
       \/ \E r \in BOOLEAN, t \in Times,
             x \in {"guid", "dom0", "browser", "array", "garbage",
                    "nonascii"} :
            meta = [exists |-> TRUE, readable |-> r, mtime |-> t, tid |-> 0,
                    text |->
                      CASE x = "guid" -> GuidText(PriorCopy)
                        [] x = "dom0" -> Dom0Text(1)
                        [] x = "browser" -> BrowserText(LocalName, 1)
                        [] x = "array" ->
                             Text("array", TRUE, 0, 0, FALSE, EmptyDict)
                        [] x = "garbage" ->
                             Text("garbage", TRUE, 0, 0, FALSE, EmptyDict)
                        [] OTHER ->
                             Text("object", FALSE, 1, 1, FALSE, PriorCopy)]
    /\ label \in {LabelEmpty, SomeLabel}

InitHandler ==
    /\ WidgetInit
    /\ clock = MaxClock
    /\ kind = [w \in Writers |-> IF w = "w1" THEN "dom0" ELSE "browser"]
    /\ InitRecords \/ InitFiles
    /\ \/ events = <<"CLOSE_WRITE">> /\ watch = "file"
       \/ events = <<"CREATE_OTHER", "CREATE_FROM">> /\ watch = "dir"
    /\ hsnap = NoSnapshot

SpecHandler == InitHandler /\ [][HandlerNext]_vars

\* One handler pass over records whose sent_size runs through the unit
\* boundaries of clipboard_formatted_size, next to payloads of several sizes
SizeInputs == {0, 1, 2, 1023, 1024, 1536, 1048575, 1048576, 1073741824}
StagedSizes == {0, 1, 2048}

InitSizes ==
    /\ WidgetInit
    /\ clock = MaxClock
    /\ kind = [w \in Writers |-> IF w = "w1" THEN "dom0" ELSE "browser"]
    /\ \/ data = AbsentData
       \/ \E n \in StagedSizes :
            data = [exists |-> TRUE, size |-> n, mtime |-> 0, tid |-> 0]
    /\ from = [exists |-> TRUE, line |-> "work", nl |-> TRUE, tid |-> 0]
    /\ xevent = [exists |-> TRUE, tid |-> 0]
    /\ \/ meta = AbsentMeta
       \/ \E cp \in Flags, ss \in SizeInputs :
            meta = [exists |-> TRUE, readable |-> TRUE, mtime |-> 0,
                    tid |-> 0,
                    text |-> GuidText(Dict("work", cp, 1 - cp, 1, 0, 0, 0, 0,
                                           ss, 256000, MinProtocol,
                                           AllKeys))]
    /\ label = LabelEmpty
    /\ \/ events = <<"CLOSE_WRITE">> /\ watch = "file"
       \/ events = <<"CREATE_OTHER", "CREATE_FROM">> /\ watch = "dir"
    /\ hsnap = NoSnapshot

SpecSizes == InitSizes /\ [][HandlerNext]_vars

\* One handler pass and changes of the shortcut features
NextUi == HandlerNext \/ UI_setup_ui
SpecUi == InitSizes /\ [][NextUi]_vars

\* One run of the virtual browser next to a widget that is not scheduled
InitBrowser ==
    /\ ClipboardInit
    /\ BrowserStart
    /\ StagingInit
    /\ kind = [w \in Writers |-> IF w = "w1" THEN "dom0" ELSE "browser"]

SpecBrowser == InitBrowser /\ [][BrowserNext]_vars

\* The menu dismisser of a tray widget, driven by its callers and by GTK
SpecHack == Init /\ [][HackNext]_vars

----------------------------------------------------------------------------
\* Properties

PassEnded == hpc = "done"

ReadPcs == {"isfile", "mtime_meta", "mtime_data", "read_meta", "read_from",
            "getsize"}

\* C1: every writer holds the Transfer Lock from before its first file write
\* until after its last one, so that (when no write failed) the four files
\* never belong to different transfers while the lock is free.
C1_WritersHoldLock ==
    /\ \A w \in Writers : wpc[w] \in InWrites \ {"d_open"} => lock = w
    /\ (lock = "free" /\ ~aborted) => ~Partial

\* C2: transfer attempts are serialized: once all writers have finished
\* (none failed) the four files hold the values of one transfer, and every
\* record the handler decodes was read from files of one single transfer.
C2_Serialized ==
    /\ ((\A w \in Writers : wpc[w] = "idle") /\ ~aborted) => ~Partial
    /\ (hpc = "classify" /\ ~aborted) => Cardinality(recTids) <= 1

\* C3: when both writers scope their four writes inside appviewer_lock and
\* complete them, everything a handler pass reads inside its own lock comes
\* from one transfer, and no pass is reading while a writer is between its
\* first and last file write.
C3_LockedReadsConsistent ==
    ~aborted =>
        /\ Cardinality(hTids) <= 1
        /\ hpc \in ReadPcs => \A w \in Writers : wpc[w] \notin InWrites

\* a pass reads the files of a writer's transfer while the other writer
\* waits for the lock
C3_Witness ==
    /\ ~aborted
    /\ hpc = "read_meta"
    /\ \E t \in 1..MaxTransfers : hTids = {t}
    /\ \E w \in Writers : wpc[w] = "lock"

\* C4: the lock is released on every exit path: a handler that is outside
\* its with block (pass ended in any way, or not yet acquired) and a writer
\* that is outside its with block do not hold the lock.
C4_LockReleased ==
    /\ hpc \in {"idle", "lock", "classify", "done"} => lock # "handler"
    /\ \A w \in Writers : wpc[w] \in {"idle", "lock"} => lock # w

\* a pass has raised inside the with block after a writer's failed write,
\* and the lock is free
C4_Witness ==
    /\ PassEnded /\ hres = "raised" /\ hpath = ""
    /\ aborted
    /\ lock = "free"

CannotDecode ==
    \/ ~meta.readable
    \/ ~meta.text.ascii
    \/ meta.text.shape # "object"
    \/ meta.text.lbraces # 1 \/ meta.text.rbraces # 1
    \/ meta.text.trailing_comma
    \/ ~(AllKeys \ {"protocol_version_xside"} \subseteq meta.text.obj.keys)

\* C6: when the structured branch is chosen and the metadata file cannot be
\* turned into a record, the event is dropped: nothing raised, no outcome
\* handed over, label unchanged (and the watch, for a close event).
C6_DecodeFailureDropped ==
    (PassEnded /\ hpath = "structured" /\ CannotDecode) =>
        /\ hres = "dropped"
        /\ label = hsnap.label
        /\ nNotes = 0
        /\ hevent = "CLOSE_WRITE" => watch = hsnap.watch

\* C7: whichever of the payload, source and metadata files are missing, a
\* pass over a well-formed (or absent) metadata file does not raise.
C7_NeverRaises ==
    (PassEnded /\ (meta.exists => ~CannotDecode)) => hres # "raised"

\* C8: a pass that starts after a writer of this repository has completely
\* written a non-empty transfer, and reads only that transfer's files,
\* decodes it: vmname is the source written, copy_action is true and
\* sent_size is the size of the payload written.
C8_RoundTrip ==
    (/\ PassEnded /\ ~aborted
     /\ hsnap.tid # 0 /\ hTids = {hsnap.tid}
     /\ CompleteTid = hsnap.tid /\ data.size > 0) =>
        /\ hres = "outcome"
        /\ metadata.vmname = from.line
        /\ Truthy(metadata.copy_action)
        /\ metadata.sent_size = data.size

\* a complete record of a copy event was classified
CopyOutcome ==
    /\ PassEnded /\ hres = "outcome"
    /\ metadata.isdict
    /\ AllKeys \ {"protocol_version_xside"} \subseteq metadata.keys
    /\ Truthy(metadata.copy_action)

\* C9: _copy selects by first match: malformed, then qrexec truncation, then
\* oversized, then empty source, then fetch failed, otherwise success.
C9_CopyPriority ==
    CopyOutcome =>
      LET m == metadata
          mal == Truthy(m.malformed_request)
          trunc == Truthy(m.qrexec_clipboard) /\ m.sent_size >= m.buffer_size
          over == Truthy(m.oversized_request)
          empty == Truthy(m.successful) /\ Truthy(m.cleared)
                   /\ m.sent_size = 0
          failed == ~Truthy(m.successful)
      IN /\ mal => lastNote.msg = "ERROR_MALFORMED_DATA"
                   /\ lastNote.icon = "dialog-error"
         /\ (~mal /\ trunc) =>
               lastNote.msg = "WARNING_POSSIBLE_TRUNCATION"
               /\ lastNote.icon = "dialog-warning"
         /\ (~mal /\ ~trunc /\ over) =>
               lastNote.msg = "ERROR_OVERSIZED_DATA"
               /\ lastNote.icon = "dialog-error"
         /\ (~mal /\ ~trunc /\ ~over /\ empty) =>
               lastNote.msg = "WARNING_EMPTY_CLIPBOARD"
               /\ lastNote.icon = "dialog-warning"
         /\ (~mal /\ ~trunc /\ ~over /\ ~empty /\ failed) =>
               lastNote.msg = "ERROR_ON_COPY"
               /\ lastNote.icon = "dialog-error"
         /\ (~mal /\ ~trunc /\ ~over /\ ~empty /\ ~failed) =>
               lastNote.msg = "MSG_COPY_SUCCESS"
               /\ lastNote.icon = "dialog-information"

\* a record that is both truncated (qrexec) and oversized gets the warning
C9_Witness ==
    /\ CopyOutcome
    /\ ~Truthy(metadata.malformed_request)
    /\ Truthy(metadata.qrexec_clipboard)
    /\ metadata.sent_size >= metadata.buffer_size
    /\ Truthy(metadata.oversized_request)
    /\ lastNote.msg = "WARNING_POSSIBLE_TRUNCATION"

\* an empty, successful, cleared copy that is neither malformed nor oversized
EmptySource ==
    /\ CopyOutcome
    /\ metadata.sent_size = 0
    /\ Truthy(metadata.successful)
    /\ Truthy(metadata.cleared)
    /\ ~Truthy(metadata.malformed_request)
    /\ ~Truthy(metadata.oversized_request)

\* C10 as stated: such a record gets the empty-source warning for every
\* value of qrexec_clipboard and buffer_size.
C10_EmptySourceAlways ==
    EmptySource => lastNote.msg = "WARNING_EMPTY_CLIPBOARD"

\* C10 amended: such a record gets the empty-source warning unless
\* qrexec_clipboard is set and buffer_size is 0 (rule 2 then comes first).
C10_EmptySourceUnlessTruncation ==
    (EmptySource
     /\ ~(Truthy(metadata.qrexec_clipboard) /\ metadata.buffer_size = 0)) =>
        /\ lastNote.msg = "WARNING_EMPTY_CLIPBOARD"
        /\ lastNote.icon = "dialog-warning"

\* a qrexec transfer of 0 bytes into a non-empty buffer gets the warning
C10_Witness ==
    /\ EmptySource
    /\ Truthy(metadata.qrexec_clipboard)
    /\ metadata.buffer_size > 0
    /\ lastNote.msg = "WARNING_EMPTY_CLIPBOARD"

\* C11: for a copy event the "clipboard wiped" suffix is appended exactly
\* when cleared is true and the outcome is not the empty-source warning
\* (case 4); the case-4 message carries no suffix.
C11_WipedSuffix ==
    CopyOutcome =>
      (lastNote.wiped <=> (Truthy(metadata.cleared)
                           /\ lastNote.msg # "WARNING_EMPTY_CLIPBOARD"))

\* a complete record of a paste event was classified
PasteOutcome ==
    /\ PassEnded /\ hres = "outcome"
    /\ metadata.isdict
    /\ ~Truthy(metadata.copy_action)
    /\ Truthy(metadata.paste_action)

\* C12: _paste selects: paste failed (with the wipe suffix) when the record
\* is not successful or malformed; otherwise "pasted to vmname" with the
\* formatted size when protocol_version_xside is present and >= 0x00010008;
\* otherwise the generic legacy message without size.
C12_PasteSelection ==
    PasteOutcome =>
      LET m == metadata
          failed == ~Truthy(m.successful) \/ Truthy(m.malformed_request)
          modern == "protocol_version_xside" \in m.keys
                    /\ m.protocol_version_xside >= 65544
      IN /\ failed => /\ lastNote.msg = "ERROR_ON_PASTE"
                      /\ lastNote.icon = "dialog-error"
                      /\ lastNote.wiped
         /\ (~failed /\ modern) =>
               /\ lastNote.msg = "MSG_PASTE_SUCCESS_METADATA"
               /\ lastNote.icon = "dialog-information"
               /\ lastNote.vmname = m.vmname
               /\ lastNote.size # NoSize
               /\ m.sent_size > 0 => lastNote.size.n = m.sent_size
         /\ (~failed /\ ~modern) =>
               /\ lastNote.msg = "MSG_PASTE_SUCCESS_LEGACY"
               /\ lastNote.icon = "dialog-information"
               /\ lastNote.size = NoSize

\* a successful paste whose record carries exactly the minimum version
C12_Witness ==
    /\ PasteOutcome
    /\ Truthy(metadata.successful)
    /\ ~Truthy(metadata.malformed_request)
    /\ "protocol_version_xside" \in metadata.keys
    /\ metadata.protocol_version_xside = 65544
    /\ lastNote.msg = "MSG_PASTE_SUCCESS_METADATA"

CopyMsgs == {"ERROR_MALFORMED_DATA", "WARNING_POSSIBLE_TRUNCATION",
             "ERROR_OVERSIZED_DATA", "WARNING_EMPTY_CLIPBOARD",
             "ERROR_ON_COPY", "MSG_COPY_SUCCESS"}
PasteMsgs == {"ERROR_ON_PASTE", "MSG_PASTE_SUCCESS_METADATA",
              "MSG_PASTE_SUCCESS_LEGACY"}

\* the pass handed one outcome of the classifier its flags select; a record
\* with neither flag is ignored without any outcome
OneClassifierRuns ==
    /\ (PassEnded /\ hres = "outcome") =>
          /\ nNotes = 1
          /\ Truthy(metadata.copy_action) => lastNote.msg \in CopyMsgs
          /\ ~Truthy(metadata.copy_action) =>
                Truthy(metadata.paste_action) /\ lastNote.msg \in PasteMsgs
    /\ (PassEnded /\ hres = "ignored") =>
          /\ ~Truthy(metadata.copy_action)
          /\ ~Truthy(metadata.paste_action)
          /\ nNotes = 0
          /\ lastNote = NoNote
          /\ label = hsnap.label
    /\ (PassEnded /\ hpath # "" /\ hres \in {"outcome", "raised"}
        /\ metadata.isdict
        /\ {"copy_action", "paste_action"} \subseteq metadata.keys) =>
          (Truthy(metadata.copy_action) \/ Truthy(metadata.paste_action))

\* C13 as stated: every classified event has exactly one of copy_action and
\* paste_action true in its decoded record (legacy or structured), exactly
\* one of _copy and _paste runs and hands one outcome; with neither flag no
\* classification occurs.
C13_ExactlyOneAction ==
    /\ OneClassifierRuns
    /\ (PassEnded /\ hres = "outcome") =>
          (Truthy(metadata.copy_action) # Truthy(metadata.paste_action))

\* C13 amended: the flags are complementary in every legacy record; a
\* structured record is classified by _copy whenever copy_action is true
\* (whatever paste_action is) and by _paste when only paste_action is true,
\* in each case with exactly one outcome; with neither flag no
\* classification occurs.
C13_OneClassifier ==
    /\ OneClassifierRuns
    /\ (PassEnded /\ hres = "outcome" /\ hpath = "legacy") =>
          (Truthy(metadata.copy_action) # Truthy(metadata.paste_action))

\* a structured record with both flags set was classified as a copy
C13_Witness ==
    /\ PassEnded /\ hres = "outcome" /\ hpath = "structured"
    /\ Truthy(metadata.copy_action) /\ Truthy(metadata.paste_action)
    /\ lastNote.msg \in CopyMsgs /\ nNotes = 1

\* the legacy branch has synthesized its record
LegacyDecoded ==
    /\ PassEnded /\ hpath = "legacy" /\ hres \in {"outcome", "ignored"}

\* C14: the legacy decode of a first line v and a payload of n bytes (0 when
\* the payload is missing) gives vmname = v without its terminator,
\* copy_action = (v non-empty), paste_action = (v empty), sent_size = n,
\* cleared = (n = 0), qrexec_clipboard and malformed_request false,
\* oversized_request = (n >= 65000), buffer_size = 65000, successful false
\* exactly for a copy of 0 bytes, and no protocol-version field.
C14_LegacyDecode ==
    LegacyDecoded =>
      LET m == metadata
          v == from.line
          n == IF data.exists THEN data.size ELSE 0
      IN /\ m.vmname = v
         /\ Truthy(m.copy_action) <=> v # ""
         /\ Truthy(m.paste_action) <=> v = ""
         /\ m.sent_size = n
         /\ Truthy(m.cleared) <=> n = 0
         /\ ~Truthy(m.qrexec_clipboard)
         /\ ~Truthy(m.malformed_request)
         /\ Truthy(m.oversized_request) <=> n >= 65000
         /\ m.buffer_size = 65000
         /\ ~Truthy(m.successful) <=> (Truthy(m.copy_action) /\ n = 0)
         /\ "protocol_version_xside" \notin m.keys
         /\ {"vmname", "copy_action", "paste_action", "sent_size",
             "cleared", "qrexec_clipboard", "malformed_request",
             "oversized_request", "buffer_size", "successful"}
              \subseteq m.keys

\* source "work\n" with a payload of 42 bytes: a successful copy of 42 bytes
C14_Witness ==
    /\ LegacyDecoded
    /\ from.line = "work" /\ from.nl /\ data.exists /\ data.size = 42
    /\ metadata.vmname = "work"
    /\ Truthy(metadata.copy_action) /\ ~Truthy(metadata.paste_action)
    /\ metadata.sent_size = 42 /\ ~Truthy(metadata.cleared)
    /\ Truthy(metadata.successful) /\ ~Truthy(metadata.oversized_request)

\* C15: a legacy event whose source file is empty, whatever the payload
\* (also 0 bytes or missing), decodes to a paste and gets the generic legacy
\* paste message, never "paste failed" and never the message with a size.
C15_LegacyEmptySource ==
    (PassEnded /\ hpath = "legacy" /\ from.exists /\ from.line = "") =>
        /\ hres = "outcome"
        /\ Truthy(metadata.paste_action) /\ ~Truthy(metadata.copy_action)
        /\ lastNote.msg = "MSG_PASTE_SUCCESS_LEGACY"
        /\ lastNote.icon = "dialog-information"
        /\ lastNote.size = NoSize
        /\ ~lastNote.wiped
        /\ nNotes = 1

\* an empty source file and no payload file at all
C15_Witness ==
    /\ PassEnded /\ hpath = "legacy"
    /\ from.exists /\ from.line = "" /\ ~from.nl /\ ~data.exists
    /\ lastNote.msg = "MSG_PASTE_SUCCESS_LEGACY"

\* C16: while Unarmed, the creation event of FROM starts exactly one pass,
\* after which (FROM still being there) the controller is Armed, FROM
\* watched instead of the directory; the creation event of another path
\* starts no pass and leaves the controller Unarmed.
C16_CreationArms ==
    [][/\ (watch = "dir" /\ events # <<>> /\ Head(events) = "CREATE_FROM"
           /\ events' = Tail(events)) =>
             (hpc = "idle" /\ hpc' = "lock" /\ hevent' = "CREATE_FROM")
       /\ (hpc = "idle" /\ hpc' # "idle") => events' = Tail(events)
       /\ (hevent = "CREATE_FROM" /\ from.exists /\ hpc = "done"
           /\ hpc' = "idle") => watch' = "file"
       /\ (events # <<>> /\ Head(events) = "CREATE_OTHER"
           /\ events' = Tail(events)) =>
             (hpc' = "idle" /\ watch' = watch /\ label' = label
              /\ lastNote' = lastNote)
      ]_vars

\* C17: when the watched FROM is deleted or moved away the handler stops
\* the event loop; from then on no staging event is processed, no outcome
\* is delivered, and the loop is not started again.
C17_StopTerminates ==
    [][/\ (events # <<>> /\ Head(events) \in {"MOVE_SELF", "DELETE_SELF"}
           /\ events' = Tail(events)) => stopped' # 0 - 1
       /\ stopped # 0 - 1 =>
             /\ stopped' # 0 - 1
             /\ hpc' = "idle"
             /\ label' = label
             /\ watch' = watch
      ]_vars

\* C18: exactly one of the directory watch and the watch of FROM is active
\* in every state; an Armed controller stays Armed whatever the transfers
\* and their outcomes; while Armed every write-and-close of FROM queues a
\* close event, and a queued close event leaves the queue only by starting
\* a handler pass.
C18_StaysArmed ==
    /\ [](watch \in {"dir", "file"})
    /\ [][/\ watch = "file" => watch' = "file"
          /\ (watch = "file"
              /\ \E w \in Writers : wpc[w] = "f_write" /\ wpc'[w] # "f_write"
                                     /\ from'.tid = wtid[w]
                                     /\ from'.line # "") =>
                events' = Append(events, "CLOSE_WRITE")
          /\ (events # <<>> /\ Head(events) = "CLOSE_WRITE"
              /\ events' = Tail(events)) =>
                (hpc' = "lock" /\ hevent' = "CLOSE_WRITE")
         ]_vars

\* Armed, after the second transfer has started, a pass for a close event
\* has ended by dropping the event
C18_Witness ==
    /\ watch = "file" /\ nextTid > 2
    /\ PassEnded /\ hevent = "CLOSE_WRITE" /\ hres = "dropped"

\* the size text of the last notification is the one of n bytes
SizeTextOf(n) ==
    /\ n = 1 => lastNote.size.singular
    /\ n \in {0, 1} => lastNote.size.mag = 0
    /\ n >= 2 =>
         /\ (lastNote.size.mag > 0) = (n >= 1024)
         /\ lastNote.size.mag = Min(Log2Floor(n) \div 10, 3)
    /\ n = 1024 => lastNote.size.tenths = 10
    /\ n = 1536 => lastNote.size.tenths = 15
    /\ n = 1048575 => lastNote.size.tenths = 10240
    /\ n = 1048576 => (lastNote.size.mag = 2 /\ lastNote.size.tenths = 10)
    /\ n = 1073741824 => (lastNote.size.mag = 3 /\ lastNote.size.tenths = 10)

\* the last notification shows the formatted sent_size of the record
ShowsSentSize ==
    /\ PassEnded /\ hres = "outcome"
    /\ lastNote.msg \in {"MSG_COPY_SUCCESS", "MSG_PASTE_SUCCESS_METADATA"}

\* C19: the size text of n bytes, n >= 0: singular wording exactly for
\* n = 1; no unit suffix for n = 0 and n = 1; for n >= 2 a suffix exactly
\* when n >= 1024, of unit index min(floor(log2 n / 10), 3), with the value
\* scaled by 1024^index to one decimal (1048576 is 1.0 MiB).
C19_FormattedSize == ShowsSentSize => SizeTextOf(metadata.sent_size)

\* C20: the outcome of a pass (notification and label) is a function of the
\* decoded record alone: classifying the same record next to any other
\* payload file, present or missing, large or small, gives the same outcome.
C20_ClassifierPure ==
    (PassEnded /\ hres = "outcome") =>
        \A d \in {AbsentData} \cup
                  {[exists |-> TRUE, size |-> n, mtime |-> 0, tid |-> 0] :
                     n \in StagedSizes} :
            /\ Classify(metadata, d).note = lastNote
            /\ Classify(metadata, d).label = label

\* C21: after a pass has delivered the outcome of a record whose cleared
\* flag is true (copy or paste), the label reads "Global clipboard is
\* empty", never "contents: <size> from <vm>"; the label then changes only
\* when a later pass delivers an outcome.
C21_ClearedShowsEmpty ==
    /\ [](( /\ PassEnded /\ hres = "outcome"
            /\ Has(metadata, "cleared") /\ Truthy(metadata.cleared))
          => label = LabelEmpty)
    /\ [][label' # label => (hpc = "classify" /\ hres' = "outcome")]_vars

\* C25: a copy record decoded by the legacy branch gives one of three
\* outcomes: the oversized error (sent_size >= 65000), the failed-copy error
\* with the wiped suffix (sent_size = 0), or the success message
\* (0 < sent_size < 65000); never the malformed-data error, the truncation
\* warning or the empty-clipboard warning.
C25_LegacyCopyOutcomes ==
    (CopyOutcome /\ hpath = "legacy") =>
      LET n == metadata.sent_size
      IN /\ lastNote.msg \in {"ERROR_OVERSIZED_DATA", "ERROR_ON_COPY",
                              "MSG_COPY_SUCCESS"}
         /\ lastNote.msg = "ERROR_OVERSIZED_DATA" <=> n >= 65000
         /\ lastNote.msg = "ERROR_ON_COPY" <=> n = 0
         /\ lastNote.msg = "ERROR_ON_COPY" => lastNote.wiped
         /\ lastNote.msg = "MSG_COPY_SUCCESS" <=> (0 < n /\ n < 65000)

\* a legacy copy whose payload is missing ended as the failed-copy error
C25_Witness ==
    /\ CopyOutcome /\ hpath = "legacy"
    /\ ~data.exists /\ metadata.sent_size = 0
    /\ lastNote.msg = "ERROR_ON_COPY" /\ lastNote.wiped

\* C22: over any sequence of show_for_widget and clear_widget calls no
\* handler id is disconnected twice; while a widget is registered exactly
\* one "map" and one "unmap" handler of the hack are connected, both to that
\* widget, under the ids the hack remembers, and none to another widget;
\* with no widget registered (after clear_widget) nothing is connected.
C22_HandlersOnce ==
    /\ \A i \in HandlerIds : disconnects[i] <= 1
    /\ hk_widget # None =>
         /\ hk_map_signal_id # 0 /\ hk_unmap_signal_id # 0
         /\ connected = {Handler(hk_map_signal_id, hk_widget, "map"),
                         Handler(hk_unmap_signal_id, hk_widget, "unmap")}
    /\ hk_widget = None => connected = {}

\* menuB is registered after two earlier registrations whose four handlers
\* have all been disconnected
C22_Witness ==
    /\ hk_widget = "menuB" /\ lastId = 6
    /\ \A i \in 1..4 : disconnects[i] = 1
    /\ Listens("menuB", "map") /\ ~Listens("menuA", "map")

\* C27: the overlay window is shown only while a registered widget is
\* mapped, and on_button_press never runs with no widget registered.
C27_OverlayHasWidget ==
    /\ overlay => (hk_widget # None /\ hk_widget \in mapped)
    /\ hackError # "AttributeError"

\* the side effects that belong to a resolved action
EffectsOf(a) ==
    IF a.disp THEN << <<"open", a.name>> >>
    ELSE IF a = Clipboard THEN << <<"clipboard", LocalName>> >>
    ELSE <<>>

\* C23: main shows the dialog exactly when --ask is given or the stored
\* action is none of 'clipboard', 'discard', 'disposable:<existing qube>';
\* the run performs at most one side effect, the one of the resolved action
\* (open the URL in the named qube, stage the URL once as the global
\* clipboard, nothing for 'discard'); closing the dialog resolves to
\* 'discard' and stores nothing.
C23_BrowserMain ==
    /\ [](Len(effects) <= 1 /\ nextTid <= 2)
    /\ [](bpc = "exit" => (effects = EffectsOf(action)
                           /\ (nextTid = 2 <=> action = Clipboard)))
    /\ [](chosen = "closed" => action = Discard)
    /\ [][/\ (bpc = "start" /\ bpc' # "start") =>
               (shown' <=>
                  (ask \/ ~(\/ feature \in {Clipboard, Discard}
                            \/ (feature.disp /\ feature.name \in Domains))))
          /\ bpc # "start" => shown' = shown
          /\ (chosen' = "closed" \/ bpc # "dialog") => feature' = feature
         ]_vars

\* a run without --ask that had to ask, was answered "clipboard", and has
\* exited after staging the URL
C23_Witness ==
    /\ bpc = "exit" /\ shown /\ ~ask /\ chosen = "clipboard"
    /\ effects = << <<"clipboard", LocalName>> >>
    /\ meta.exists /\ meta.tid = 1 /\ from.line = LocalName

\* C24: no deadlock on the lock: a handler pass never runs while the
\* widget's own copy_dom0_clipboard is in progress or holds the lock, and a
\* pass that waits for the lock leaves the wait only by acquiring it and
\* eventually ends with the lock released by the handler.
C24_NoLockDeadlock ==
    /\ [](hpc # "idle" => (wpc["w1"] = "idle" /\ lock # "w1"))
    /\ [][(hpc = "lock" /\ hpc' # "lock") => lock' = "handler"]_vars
    /\ (hpc = "lock") ~> (PassEnded /\ lock # "handler")

\* a pass waits for the lock while the writer of another process holds it
C24_Witness ==
    /\ hpc = "lock" /\ lock = "w2" /\ wpc["w2"] \in InWrites

\* C26: a change of a shortcut feature (handled by setup_ui) changes only
\* the shortcut hints: no notification is sent, no staging file, watch,
\* queued event or lock changes, and the label stays as the last processed
\* transfer event has set it.
C26_SetupUiFrame ==
    [][(copy_feature' # copy_feature \/ paste_feature' # paste_feature) =>
         /\ UNCHANGED <<lastNote, nNotes>>
         /\ UNCHANGED <<files, watch, events, lock>>
         /\ label' = label
      ]_vars

====
